---- MODULE Spec2Model ----
(***************************************************************************)
(* Invoice digitization pipeline of Data-Digitization.                     *)
(*                                                                         *)
(* Three programs share one pipeline shape: script.py (local spreadsheet), *)
(* streamlit.py (web, one record per receipt) and streamlit1.py (web, one  *)
(* record per line item).  The variable `program` fixes which of the three *)
(* is running; the actions below follow that program's code.               *)
(*                                                                         *)
(* Representation of Python values:                                        *)
(*   - a dict is a function from its keys (strings) to values; a key the   *)
(*     dict does not have is outside its DOMAIN;                           *)
(*   - an optional value (None or a value v) is <<>> or <<v>>;             *)
(*   - Python None stored in a string field is the reserved string None;   *)
(*   - a date string "a/b/c" is the tuple <<a, b, c>> of its components,   *)
(*     and a missing date (None) is <<>>;                                  *)
(*   - a model response is a sequence of tokens: "{", "}", "x" (a piece    *)
(*     of prose) or the name of a payload body (the text between the outer *)
(*     braces of a JSON object);                                           *)
(*   - money is counted in units of 0.0005, so that the 1e-3 tolerance of  *)
(*     script.py is the integer 2.                                         *)
(***************************************************************************)
EXTENDS Integers, Sequences, FiniteSets, TLC

VARIABLES
    program,             \* which source file runs: "script", "streamlit", "streamlit1"
    logged_in,           \* st.session_state.logged_in
    username,            \* st.session_state.username
    product_collection,  \* the MongoDB collection, in natural (insertion) order
    sheet,               \* rows of the "Product Details" sheet of output.xlsx
    temp_files,          \* temporary image files that exist on disk
    pc,                  \* position in the running handler
    remaining,           \* uploaded files the for-loop has not finished yet
    result_text,         \* local of extract_invoice_data: the model's response
    cleaned_result,      \* local of extract_invoice_data: the text given to json.loads
    invoice_data,        \* what extract_invoice_data returned (optional dict)
    report,              \* what the program told the user about the current step
    summary_df,          \* the summary table returned to the Generate Summary handler
    upserted             \* history: the payloads this upload has written so far

vars == <<program, logged_in, username, product_collection, sheet, temp_files,
          pc, remaining, result_text, cleaned_result, invoice_data, report,
          summary_df, upserted>>

-----------------------------------------------------------------------------
(* Bounds of the model *)

MaxBatch == 2    \* images in one upload
MaxLen == 2      \* tokens of a response that is not a clean JSON object
MaxRows == 3     \* rows the "Product Details" sheet may hold
MaxDocs == 2     \* documents the collection may hold

-----------------------------------------------------------------------------
(* Python values *)

None == "None"
NoDate == <<>>
Usernames == {"alice", "bob"}
Programs == {"script", "streamlit", "streamlit1"}
WebPrograms == {"streamlit", "streamlit1"}

EmptyDict == [k \in {} |-> 0]

Restrict(d, keys) == [k \in (DOMAIN d) \cap keys |-> d[k]]

\* dict.update / MongoDB $set: the fields of `fields` overwrite, the others stay
Update(d, fields) ==
    [k \in (DOMAIN d) \cup (DOMAIN fields) |->
        IF k \in DOMAIN fields THEN fields[k] ELSE d[k]]

NoneOf(key) == IF key = "invoice_date" THEN NoDate ELSE None

\* dict.get(key, None)
Get(d, key) == IF key \in DOMAIN d THEN d[key] ELSE NoneOf(key)

\* Python truthiness of a header field
Falsy(key, v) == IF key = "invoice_date" THEN v = NoDate ELSE v \in {None, ""}

Min(S) == CHOOSE m \in S : \A n \in S : m <= n
Max(S) == CHOOSE m \in S : \A n \in S : m >= n

RECURSIVE SumSeq(_)
SumSeq(s) == IF s = <<>> THEN 0 ELSE Head(s) + SumSeq(Tail(s))


-----------------------------------------------------------------------------
(* str.find, str.rfind and slicing *)

find(s, c) ==
    IF \E i \in 1..Len(s) : s[i] = c
    THEN Min({i \in 1..Len(s) : s[i] = c}) - 1
    ELSE -1

rfind(s, c) ==
    IF \E i \in 1..Len(s) : s[i] = c
    THEN Max({i \in 1..Len(s) : s[i] = c}) - 1
    ELSE -1

\* a slice bound as Python normalises it: negative bounds count from the end
SliceIndex(i, n) ==
    IF i < 0 THEN (IF i + n < 0 THEN 0 ELSE i + n)
    ELSE (IF i > n THEN n ELSE i)

\* s[start:end]
Slice(s, start, end) ==
    LET lo == SliceIndex(start, Len(s))
        hi == SliceIndex(end, Len(s))
    IN  IF lo >= hi THEN <<>> ELSE SubSeq(s, lo + 1, hi)

\* a variant that cuts before the last "}" instead of after it
end_index_exclusive(text) == rfind(text, "}")

\* result.text.rfind('}') + 1
end_index(text) == rfind(text, "}") + 1

start_index(text) == find(text, "{")

\* result_text[start_index:end_index]
CleanedResult(text) == Slice(text, start_index(text), end_index(text))

-----------------------------------------------------------------------------
(* What the model may answer: payload bodies in the schema each prompt asks for *)

LineItem(name, unit_price, quantity, total_price, discount, gst) ==
    [product_name |-> name, unit_price |-> unit_price, quantity |-> quantity,
     total_price |-> total_price, discount |-> discount] @@ ("gst%" :> gst)

ReceiptItem(sub_total, tps, tvq, total_price, discount) ==
    [sub_total |-> sub_total, tps |-> tps, tvq |-> tvq, tax |-> tps + tvq,
     total_price |-> total_price, discount |-> discount]

Without(d, key) == Restrict(d, (DOMAIN d) \ {key})

\* line items, as (unit_price, quantity, total_price, discount) in money:
\* pad (10, 2, 20, 0), ink (10, 2, 15, 0), pen (10, 2, 15, 3),
\* nib (10.0005, 1, 10, 0): a gap of 0.0005, below the tolerance
pad == LineItem("pad", 20000, 2, 40000, 0, 10)
ink == LineItem("ink", 20000, 2, 30000, 0, 0)
pen == LineItem("pen", 20000, 2, 30000, 6000, 10)
nib == LineItem("nib", 20001, 1, 20000, 0, 0)
pen_no_discount == Without(LineItem("pen", 20000, 2, 40000, 0, 10), "discount")
ink_no_name == Without(ink, "product_name")

receipt == ReceiptItem(30000, 1500, 3000, 34500, 2000)
receipt_late == ReceiptItem(10000, 500, 1000, 11500, 0)
receipt_no_discount == Without(ReceiptItem(40000, 2000, 4000, 46000, 0), "discount")

January == <<1, 15, 2024>>     \* "1/15/2024"
February == <<2, 3, 2024>>     \* "2/3/2024"
DayFirst == <<15, 1, 2024>>    \* "15/1/2024": not month/day/year

Payload(vendor_key, vendor, number, date, items) ==
    (vendor_key :> vendor) @@
    [invoice_number |-> number, invoice_date |-> date, data |-> items]

ErrorPayload == [error |-> "The image is blurry and cannot be processed."]

\* the payload a body token stands for
Body(token) ==
    CASE token = "L1" -> Payload("store_name", "acme", "INV1", January, <<pen>>)
      [] token = "L2" -> Payload("store_name", "acme", "INV1", January, <<pen_no_discount>>)
      [] token = "L3" -> Payload("store_name", "bolt", "INV2", DayFirst, <<ink>>)
      [] token = "L4" -> Payload("store_name", "acme", "INV1", January, <<ink, ink_no_name>>)
      [] token = "L5" -> ErrorPayload
      [] token = "L6" -> Payload("store_name", "acme", "INV1", January, <<pen, ink>>)
      [] token = "L7" -> Without(Payload("store_name", "bolt", "INV2", DayFirst, <<ink>>),
                                 "store_name")
      [] token = "D1" -> Payload("vendor_name", "acme", "INV1", January, <<receipt>>)
      [] token = "D2" -> Payload("vendor_name", "acme", "INV1", January, <<receipt_no_discount>>)
      [] token = "D3" -> Payload("vendor_name", "bolt", "INV2", DayFirst, <<receipt_late>>)
      [] token = "D4" -> Payload("vendor_name", "bolt", "INV3", January, <<receipt_late>>)
      [] token = "D5" -> Without(Payload("vendor_name", "acme", "INV4", February, <<receipt>>),
                                 "vendor_name")
      [] token = "D6" -> ErrorPayload
      [] token = "D7" -> Payload("vendor_name", "acme", "INV1", January,
                                 <<receipt, receipt_no_discount>>)
      [] token = "X1" -> Payload("store_name", "acme", "INV1", January, <<pad, ink, pen>>)
      [] token = "X2" -> Payload("store_name", "acme", "INV1", January, <<ink>>)
      [] token = "X3" -> Payload("store_name", "acme", "INV1", January, <<pen>>)
      [] token = "X4" -> Payload("store_name", "bolt", "INV2", DayFirst, <<nib, ink>>)
      [] token = "X5" -> Payload("store_name", "acme", "INV1", January, <<pad, pad>>)
      [] token = "X6" -> ErrorPayload
      [] token = "X7" -> Payload("store_name", "acme", "INV1", January, <<pen_no_discount>>)

BodyTokens(prog) ==
    CASE prog = "streamlit1" -> {"L1", "L2", "L3", "L4", "L5", "L6", "L7"}
      [] prog = "streamlit" -> {"D1", "D2", "D3", "D4", "D5", "D6", "D7"}
      [] prog = "script" -> {"X1", "X2", "X3", "X4", "X5", "X6", "X7"}

AllBodyTokens == UNION {BodyTokens(prog) : prog \in Programs}

\* the body a response of this program wraps in prose or cuts short
SampleBody(prog) ==
    CASE prog = "streamlit1" -> "L1"
      [] prog = "streamlit" -> "D1"
      [] prog = "script" -> "X2"

NoiseTokens == {"{", "}", "x"}

\* responses that are no clean JSON object: every text of braces and prose up to
\* MaxLen tokens, and a body cut short, reversed, or with braces in the prose
NoisyResponses(prog) ==
    LET b == SampleBody(prog)
    IN  UNION {[1..n -> NoiseTokens] : n \in 0..MaxLen}
        \cup {<<"{", b>>, <<b, "}">>, <<"}", b, "{">>,
              <<"{", "x", "}", "{", b, "}">>, <<"{", b, "}", "x", "}">>}

\* "Here is the data: {...} Thanks!" and the bare object
CleanResponses(prog) ==
    {<<"{", b, "}">> : b \in BodyTokens(prog)}
    \cup {<<"x", "{", SampleBody(prog), "}", "x">>}

Responses(prog) == CleanResponses(prog) \cup NoisyResponses(prog)

\* json.loads: the parsed dict, or <<>> for JSONDecodeError.  A text is a JSON
\* object when it is one pair of braces around nothing or around one body.
json_loads(text) ==
    IF text = <<"{", "}">> THEN <<EmptyDict>>
    ELSE IF Len(text) = 3 /\ text[1] = "{" /\ text[3] = "}" /\ text[2] \in AllBodyTokens
         THEN <<Body(text[2])>>
         ELSE <<>>

-----------------------------------------------------------------------------
(* The MongoDB collection *)

\* a query document matches a stored one field by field; a null in the query
\* also matches a document without the field
Matches(doc, query) ==
    \A k \in DOMAIN query :
        IF k \in DOMAIN doc THEN doc[k] = query[k] ELSE query[k] = NoneOf(k)

\* a variant that inserts without looking for a match
update_one_insert(collection, query, fields) ==
    Append(collection, Update(query, fields))

\* collection.update_one(query, {"$set": fields}, upsert=True): the first match
\* gets the fields set; without a match the query's fields and the set fields
\* are inserted as a new document
update_one(collection, query, fields) ==
    LET hits == {i \in 1..Len(collection) : Matches(collection[i], query)}
    IN  IF hits # {}
        THEN [collection EXCEPT ![Min(hits)] = Update(@, fields)]
        ELSE Append(collection, Update(query, fields))

\* collection.find({"username": username})
find_by_username(collection, user) ==
    SelectSeq(collection, LAMBDA doc : Matches(doc, [username |-> user]))

\* a JSON value of the data list that is no object
Scalar(v) == [scalar |-> v]
IsDict(item) == "scalar" \notin DOMAIN item

NoDataFound == "No data found in the invoice."
NoProductDataFound == "No product data found in the invoice."
AppendError == "An error occurred while appending data to MongoDB"
MissingFields == "An error occurred while appending data to MongoDB: Missing essential invoice fields"
Uncaught == "Traceback: uncaught exception"
KeyErrorTrace == "Traceback: KeyError: 'product_name'"
ServerErrorTrace == "Traceback: pymongo.errors.ServerSelectionTimeoutError"

RECURSIVE upsert_products(_, _, _, _, _)
\* streamlit1.py, the for-loop of append_to_mongodb: raised is TRUE when an
\* exception left the loop, and error is its traceback: AttributeError for an
\* item that is no dict, KeyError for product["product_name"] (evaluated
\* before update_one is called), a pymongo error for a failed write
upsert_products(items, header, user, collection, db_up) ==
    IF items = <<>> THEN [collection |-> collection, raised |-> FALSE, error |-> ""]
    ELSE IF ~IsDict(Head(items))
    THEN [collection |-> collection, raised |-> TRUE, error |-> Uncaught]
    ELSE LET product == Update(Head(items), [username |-> user])
         IN  IF "product_name" \notin DOMAIN product
             THEN [collection |-> collection, raised |-> TRUE, error |-> KeyErrorTrace]
             ELSE IF ~db_up
             THEN [collection |-> collection, raised |-> TRUE, error |-> ServerErrorTrace]
             ELSE upsert_products(
                      Tail(items), header, user,
                      update_one(collection,
                                 Update(header, [product_name |-> product["product_name"],
                                                 username |-> user]),
                                 product),
                      db_up)

\* streamlit1.py append_to_mongodb: the collection afterwards, what was
\* reported ("" for nothing) and whether an exception left the function
append_to_mongodb1(data, user, collection, db_up) ==
    IF data = EmptyDict \/ "data" \notin DOMAIN data
    THEN [collection |-> collection, report |-> NoProductDataFound, raised |-> FALSE]
    ELSE LET header == [store_name |-> Get(data, "store_name"),
                        invoice_number |-> Get(data, "invoice_number"),
                        invoice_date |-> Get(data, "invoice_date")]
             done == upsert_products(data["data"], header, user, collection, db_up)
         IN  [collection |-> done.collection,
              report |-> done.error,
              raised |-> done.raised]

RECURSIVE upsert_items_by_item(_, _, _, _, _)
\* a variant whose filter also names the item's total_price
upsert_items_by_item(items, header, user, collection, db_up) ==
    IF items = <<>> THEN [collection |-> collection, raised |-> FALSE]
    ELSE IF ~IsDict(Head(items)) \/ ~db_up
    THEN [collection |-> collection, raised |-> TRUE]
    ELSE upsert_items_by_item(
             Tail(items), header, user,
             update_one(collection,
                        Update(header, [username |-> user,
                                        total_price |-> Get(Head(items), "total_price")]),
                        Update(Head(items), [username |-> user])),
             db_up)

RECURSIVE upsert_items(_, _, _, _, _)
\* streamlit.py, the for-loop of append_to_mongodb
upsert_items(items, header, user, collection, db_up) ==
    IF items = <<>> THEN [collection |-> collection, raised |-> FALSE]
    ELSE IF ~IsDict(Head(items)) \/ ~db_up
    THEN [collection |-> collection, raised |-> TRUE]
    ELSE upsert_items(
             Tail(items), header, user,
             update_one(collection, Update(header, [username |-> user]),
                        Update(Head(items), [username |-> user])),
             db_up)

\* a variant without the check for a payload that carries no "data"
append_to_mongodb_unguarded(data, user, collection, db_up) ==
    LET header == [invoice_number |-> Get(data, "invoice_number"),
                   invoice_date |-> Get(data, "invoice_date"),
                   vendor_name |-> Get(data, "vendor_name")]
        items == IF "data" \in DOMAIN data THEN data["data"] ELSE <<>>
    IN  IF \E k \in DOMAIN header : Falsy(k, header[k])
        THEN [collection |-> collection, report |-> MissingFields, raised |-> FALSE]
        ELSE LET done == upsert_items(items, header, user, collection, db_up)
             IN  [collection |-> done.collection,
                  report |-> IF done.raised THEN AppendError ELSE "",
                  raised |-> FALSE]

\* streamlit.py append_to_mongodb: every exception is caught and reported
append_to_mongodb(data, user, collection, db_up) ==
    IF data = EmptyDict \/ "data" \notin DOMAIN data
    THEN [collection |-> collection, report |-> NoDataFound, raised |-> FALSE]
    ELSE LET header == [invoice_number |-> Get(data, "invoice_number"),
                        invoice_date |-> Get(data, "invoice_date"),
                        vendor_name |-> Get(data, "vendor_name")]
         IN  IF \E k \in DOMAIN header : Falsy(k, header[k])
             THEN [collection |-> collection, report |-> MissingFields, raised |-> FALSE]
             ELSE LET done == upsert_items(data["data"], header, user, collection, db_up)
                  IN  [collection |-> done.collection,
                       report |-> IF done.raised THEN AppendError ELSE "",
                       raised |-> FALSE]

-----------------------------------------------------------------------------
(* Dates *)

NaT == <<>>

DaysInMonth(m, y) ==
    IF m = 2
    THEN (IF (y % 4 = 0 /\ y % 100 # 0) \/ y % 400 = 0 THEN 29 ELSE 28)
    ELSE IF m \in {4, 6, 9, 11} THEN 30 ELSE 31

\* pd.to_datetime(v, format="%m/%d/%Y", errors="coerce"): the timestamp
\* <<year, month, day>>, or NaT for None and for a text that is not
\* month/day/four-digit-year within pandas' timestamp range
to_datetime(v) ==
    IF /\ Len(v) = 3
       /\ v[1] \in 1..12
       /\ v[3] \in 1678..2261
       /\ v[2] \in 1..DaysInMonth(v[1], v[3])
    THEN <<v[3], v[1], v[2]>>
    ELSE NaT

\* .dt.to_period("M"): <<year, month>>
to_period(ts) == IF ts = NaT THEN NaT ELSE <<ts[1], ts[2]>>

-----------------------------------------------------------------------------
(* Aggregation *)

HasColumn(docs, c) == \E i \in 1..Len(docs) : c \in DOMAIN docs[i]

\* Series.sum(): missing values (NaN) are skipped
SumColumn(docs, c) ==
    SumSeq([i \in 1..Len(docs) |-> IF c \in DOMAIN docs[i] THEN docs[i][c] ELSE 0])

RECURSIVE SumRows(_, _)
SumRows(rows, c) ==
    IF rows = {} THEN 0
    ELSE LET r == CHOOSE r \in rows : TRUE
         IN  (IF c \in DOMAIN r THEN r[c] ELSE 0) + SumRows(rows \ {r}, c)

YearMonth(doc) == to_period(to_datetime(Get(doc, "invoice_date")))

\* df["gst_amount"] = (df["total_price"] * df["gst%"]) / 100, NaN where either is
WithGstAmount(doc) ==
    IF "total_price" \in DOMAIN doc /\ "gst%" \in DOMAIN doc
    THEN Update(doc, [gst_amount |-> (doc["total_price"] * doc["gst%"]) \div 100])
    ELSE doc

SummaryColumns1 == {"quantity", "total_price", "discount", "gst_amount"}

\* df.groupby(keyColumn).agg(sum): one row per value of the key column; a
\* NaT/NaN key is left out unless dropna=False
GroupBy(docs, keyColumn, columns, dropna) ==
    LET keyOf(d) == IF keyColumn \in DOMAIN d THEN d[keyColumn] ELSE NaT
        keys == {keyOf(docs[i]) : i \in 1..Len(docs)}
        kept == IF dropna THEN {k \in keys : k # NaT} ELSE keys
    IN  {[c \in columns \cup {keyColumn} |->
            IF c = keyColumn THEN k
            ELSE SumColumn(SelectSeq(docs, LAMBDA d : keyOf(d) = k), c)] : k \in kept}

\* streamlit1.py generate_summary_from_mongodb: <<>> for None, else the table;
\* raised when a column the code indexes is in no document (KeyError)
generate_summary_from_mongodb1(user, collection) ==
    LET all_data == find_by_username(collection, user)
        df == [i \in 1..Len(all_data) |->
                 WithGstAmount(Update(all_data[i],
                     [k \in {"year-month"} |-> YearMonth(all_data[i])]))]
    IN  IF all_data = <<>> THEN [raised |-> FALSE, summary |-> <<>>]
        ELSE IF \E c \in {"invoice_date", "total_price", "gst%", "quantity", "discount"} :
                    ~HasColumn(all_data, c)
        THEN [raised |-> TRUE, summary |-> <<>>]
        ELSE [raised |-> FALSE,
              summary |-> <<GroupBy(df, "year-month", SummaryColumns1, TRUE)>>]

ReceiptColumns == {"sub_total", "tps", "tvq", "tax", "total_price", "discount"}
TotalForMonth == "Total for Month"
AllVendors == "All Vendors"

\* streamlit.py, first tier: df.groupby(["year-month", "vendor_name"], dropna=False)
GroupRows(df) ==
    LET keyOf(d) == <<YearMonth(d), Get(d, "vendor_name")>>
        keys == {keyOf(df[i]) : i \in 1..Len(df)}
    IN  {[c \in ReceiptColumns \cup {"year-month", "vendor_name"} |->
            CASE c = "year-month" -> k[1]
              [] c = "vendor_name" -> k[2]
              [] OTHER -> SumColumn(SelectSeq(df, LAMBDA d : keyOf(d) = k), c)]
         : k \in keys}

\* second tier: summary_df.groupby("year-month").agg(sum).assign(vendor_name=...)
MonthRows(groups) ==
    LET months == {g["year-month"] : g \in groups} \ {NaT}
    IN  {[c \in ReceiptColumns \cup {"year-month", "vendor_name"} |->
            CASE c = "year-month" -> m
              [] c = "vendor_name" -> TotalForMonth
              [] OTHER -> SumRows({g \in groups : g["year-month"] = m}, c)]
         : m \in months}

\* third tier: summary_df.agg(sum) as one row; its year_month label is dropped
\* by the column selection, which leaves "year-month" empty
GrandRow(groups) ==
    [c \in ReceiptColumns \cup {"year-month", "vendor_name"} |->
        CASE c = "year-month" -> NaT
          [] c = "vendor_name" -> AllVendors
          [] OTHER -> SumRows(groups, c)]

\* streamlit.py generate_summary_from_mongodb: <<>> when it returns None (no
\* data, or an exception it caught and reported), else the summary table
generate_summary_from_mongodb(user, collection) ==
    LET all_data == find_by_username(collection, user)
        groups == GroupRows(all_data)
    IN  IF user \in {None, ""} \/ all_data = <<>> THEN <<>>
        ELSE IF \E c \in ReceiptColumns \cup {"invoice_date", "vendor_name"} :
                    ~HasColumn(all_data, c)
        THEN <<>>
        ELSE <<groups \cup MonthRows(groups) \cup {GrandRow(groups)}>>

-----------------------------------------------------------------------------
(* script.py: the "Product Details" sheet *)

threshold == 2    \* 1e-3, in money units of 0.0005

columns_order == {"invoice_date", "invoice_number", "store_name", "product_name",
                  "unit_price", "quantity", "total_price", "discount", "gst%",
                  "gst_amount", "month_year"}

\* the boolean mask of line 108; a comparison with a missing value is False
DiscountMask(row) ==
    /\ {"unit_price", "quantity", "total_price", "discount"} \subseteq DOMAIN row
    /\ row["unit_price"] * row["quantity"] > row["total_price"]
    /\ row["discount"] = 0

\* np.where(abs(gap) < threshold, 0, gap) for one row
GapOrZero(row) ==
    LET gap == row["unit_price"] * row["quantity"] - row["total_price"]
        abs == IF gap < 0 THEN 0 - gap ELSE gap
    IN  IF abs < threshold THEN 0 ELSE gap

\* df.loc[mask, 'discount'] = values, with values as long as the frame:
\* pandas sets the rows when the mask selects all of them, does nothing when it
\* selects none, and raises ValueError when it selects some
AssignDiscount(df) ==
    LET n == Len(df)
        selected == {i \in 1..n : DiscountMask(df[i])}
    IN  IF Cardinality(selected) = n
        THEN [raised |-> FALSE,
              df |-> [i \in 1..n |-> Update(df[i], [discount |-> GapOrZero(df[i])])]]
        ELSE IF selected = {} THEN [raised |-> FALSE, df |-> df]
        ELSE [raised |-> TRUE, df |-> df]

RECURSIVE drop_duplicates(_)
\* keeps the first of equal rows
drop_duplicates(df) ==
    IF df = <<>> THEN <<>>
    ELSE LET front == drop_duplicates(SubSeq(df, 1, Len(df) - 1))
             last == df[Len(df)]
         IN  IF \E i \in 1..Len(front) : front[i] = last
             THEN front ELSE Append(front, last)

\* script.py append_product_data_to_excel: the sheet afterwards, or raised
append_product_data_to_excel(product_data, rows) ==
    LET dated == [i \in 1..Len(product_data) |->
                    LET ts == to_datetime(Get(product_data[i], "invoice_date"))
                    IN  WithGstAmount(Update(product_data[i],
                            [invoice_date |-> ts, month_year |-> to_period(ts)]))]
        needed == {"invoice_date", "total_price", "gst%", "unit_price", "quantity",
                   "discount"}
        set == AssignDiscount(dated)
        df == drop_duplicates(set.df)
    IN  IF \E c \in needed : ~HasColumn(product_data, c)
        THEN [raised |-> TRUE, sheet |-> rows]
        ELSE IF set.raised \/ \E c \in columns_order : ~HasColumn(df, c)
        THEN [raised |-> TRUE, sheet |-> rows]
        ELSE [raised |-> FALSE,
              sheet |-> rows \o [i \in 1..Len(df) |-> Restrict(df[i], columns_order)]]

\* script.py generate_summary_from_product_details: df.groupby('month_year')
generate_summary_from_product_details(rows) ==
    GroupBy(rows, "month_year", SummaryColumns1, TRUE)

\* script.py process_invoice after the extraction: tag the products with the
\* header, append them, refresh the summary
process_invoice(data, rows) ==
    IF \E k \in {"store_name", "invoice_number", "invoice_date", "data"} :
           k \notin DOMAIN data
    THEN [raised |-> TRUE, sheet |-> rows]
    ELSE IF \E i \in 1..Len(data["data"]) : ~IsDict(data["data"][i])
    THEN [raised |-> TRUE, sheet |-> rows]
    ELSE LET products == [i \in 1..Len(data["data"]) |->
                            Update(data["data"][i],
                                   [store_name |-> data["store_name"],
                                    invoice_number |-> data["invoice_number"],
                                    invoice_date |-> data["invoice_date"]])]
         IN  append_product_data_to_excel(products, rows)

-----------------------------------------------------------------------------
(* The handlers *)

ExtractionError == "Error during invoice extraction"
Extracted == "Extracted Invoice Data"
ParseFailed == "Failed to parse JSON"
ExtractFailed == "Failed to extract invoice data."
Processed == "Invoices processed successfully!"
SheetUpdated == "Invoice data processed and appended. Summary updated."
DownloadReady == "Download Output File"
NoSummaryData == "No data available to generate the summary."

TempPath == "tmp.jpg"

Init ==
    /\ program \in Programs
    /\ logged_in = FALSE
    /\ username = None
    /\ product_collection = <<>>
    /\ sheet = <<>>
    /\ temp_files = {}
    /\ pc = "idle"
    /\ remaining = 0
    /\ result_text = <<>>
    /\ cleaned_result = <<>>
    /\ invoice_data = <<>>
    /\ report = ""
    /\ summary_df = <<>>
    /\ upserted = <<>>

\* login(): the form is shown while nobody is logged in; verified is whether
\* the user exists and the password checks
login ==
    /\ program \in WebPrograms /\ pc = "idle" /\ ~logged_in
    /\ \E u \in Usernames, verified \in BOOLEAN :
          /\ logged_in' = verified
          /\ username' = IF verified THEN u ELSE username
          /\ report' = IF verified THEN "Login successful!"
                       ELSE "Invalid username or password."
    /\ summary_df' = <<>>
    /\ UNCHANGED <<upserted, program, product_collection, sheet, temp_files, pc, remaining,
                   result_text, cleaned_result, invoice_data>>

\* the "Log Out" button
logout ==
    /\ program \in WebPrograms /\ pc = "idle" /\ logged_in
    /\ logged_in' = FALSE
    /\ username' = None
    /\ report' = "Logged out successfully!"
    /\ summary_df' = <<>>
    /\ UNCHANGED <<upserted, program, product_collection, sheet, temp_files, pc, remaining,
                   result_text, cleaned_result, invoice_data>>

\* "Upload Invoice": the uploader hands n files to the for-loop
upload_invoice ==
    /\ program \in WebPrograms /\ pc = "idle" /\ logged_in
    /\ \E n \in 1..MaxBatch : remaining' = n
    /\ pc' = "for"
    /\ report' = ""
    /\ summary_df' = <<>>
    /\ upserted' = <<>>
    /\ UNCHANGED <<program, logged_in, username, product_collection, sheet,
                   temp_files, result_text, cleaned_result, invoice_data>>

\* the loop takes the next file and extract_invoice_data writes it to a
\* temporary file (delete=False)
for_next_file ==
    /\ pc = "for" /\ remaining > 0
    /\ temp_files' = temp_files \cup {TempPath}
    /\ pc' = "upload_file"
    /\ report' = ""
    /\ UNCHANGED <<upserted, program, logged_in, username, product_collection, sheet,
                   remaining, result_text, cleaned_result, invoice_data, summary_df>>

\* the loop is over: st.success
for_done ==
    /\ pc = "for" /\ remaining = 0
    /\ pc' = "idle"
    /\ report' = Processed
    /\ UNCHANGED <<upserted, program, logged_in, username, product_collection, sheet,
                   temp_files, remaining, result_text, cleaned_result, invoice_data,
                   summary_df>>

\* script.py upload_image_gui: an image is selected and process_invoice called
upload_image_gui ==
    /\ program = "script" /\ pc = "idle"
    /\ pc' = "upload_file"
    /\ report' = ""
    /\ UNCHANGED <<upserted, program, logged_in, username, product_collection, sheet,
                   temp_files, remaining, result_text, cleaned_result, invoice_data,
                   summary_df>>

\* an exception inside extract_invoice_data: the web programs catch it, report
\* it and return None through the finally block; script.py has no handler
\* there and the run ends with the traceback
ExtractionRaises ==
    IF program \in WebPrograms
    THEN /\ report' = ExtractionError
         /\ invoice_data' = <<>>
         /\ pc' = "return"
         /\ UNCHANGED <<upserted, program, logged_in, username, product_collection, sheet,
                        temp_files, remaining, result_text, cleaned_result,
                        summary_df>>
    ELSE /\ report' = Uncaught
         /\ pc' = "idle"
         /\ UNCHANGED <<upserted, program, logged_in, username, product_collection, sheet,
                        temp_files, remaining, result_text, cleaned_result,
                        invoice_data, summary_df>>

\* genai.upload_file: a file handle, or nothing / an exception
upload_file ==
    /\ pc = "upload_file"
    /\ \E uploaded \in BOOLEAN :
          IF uploaded
          THEN /\ pc' = "generate_content"
               /\ UNCHANGED <<upserted, program, logged_in, username, product_collection,
                              sheet, temp_files, remaining, result_text,
                              cleaned_result, invoice_data, report, summary_df>>
          ELSE ExtractionRaises

\* model.generate_content answers with a text, or raises; from the text the
\* part between the first "{" and the last "}" goes to json.loads
generate_content ==
    /\ pc = "generate_content"
    /\ \E answered \in BOOLEAN :
          IF answered
          THEN /\ \E text \in Responses(program) : result_text' = text
               /\ cleaned_result' = CleanedResult(result_text')
               /\ invoice_data' = json_loads(cleaned_result')
               /\ report' =
                    IF invoice_data' # <<>>
                    THEN (IF program \in WebPrograms THEN Extracted ELSE report)
                    ELSE (IF program \in WebPrograms THEN ExtractionError
                          ELSE ParseFailed)
               /\ pc' = "return"
               /\ UNCHANGED <<upserted, program, logged_in, username, product_collection,
                              sheet, temp_files, remaining, summary_df>>
          ELSE ExtractionRaises

\* a variant that leaves the file where it is
finally_keep(files, path) == files

\* finally: if os.path.exists(temp_file_path): os.remove(temp_file_path)
finally_remove(files, path) == files \ {path}

\* extract_invoice_data returns; the web programs run the finally block first
return_from_extract ==
    /\ pc = "return"
    /\ temp_files' = IF program \in WebPrograms
                     THEN finally_remove(temp_files, TempPath)
                     ELSE temp_files
    /\ result_text' = <<>>
    /\ cleaned_result' = <<>>
    /\ pc' = "returned"
    /\ UNCHANGED <<upserted, program, logged_in, username, product_collection, sheet,
                   remaining, invoice_data, report, summary_df>>

\* the body of the upload loop: `if invoice_data: append_to_mongodb(invoice_data)`;
\* an exception that leaves append_to_mongodb ends the run, with the rest of
\* the batch unprocessed
LoopBody(data, user, collection, db_up) ==
    IF data = <<>> \/ data = <<EmptyDict>>
    THEN [collection |-> collection, report |-> "", raised |-> FALSE]
    ELSE IF program = "streamlit"
         THEN append_to_mongodb(data[1], user, collection, db_up)
         ELSE append_to_mongodb1(data[1], user, collection, db_up)

\* append_to_mongodb was called and returned without reporting anything
Accepted(data, done) ==
    data # <<>> /\ data # <<EmptyDict>> /\ ~done.raised /\ done.report = ""

append_invoice ==
    /\ program \in WebPrograms /\ pc = "returned"
    /\ \E db_up \in BOOLEAN :
          LET done == LoopBody(invoice_data, username, product_collection, db_up)
          IN  /\ Len(done.collection) <= MaxDocs
              /\ product_collection' = done.collection
              /\ report' = IF done.report = "" THEN report ELSE done.report
              /\ pc' = IF done.raised THEN "idle" ELSE "for"
              /\ remaining' = IF done.raised THEN 0 ELSE remaining - 1
              /\ upserted' = IF Accepted(invoice_data, done)
                              THEN Append(upserted, invoice_data[1])
                              ELSE upserted
    /\ invoice_data' = <<>>
    /\ UNCHANGED <<program, logged_in, username, sheet, temp_files, result_text,
                   cleaned_result, summary_df>>

\* script.py process_invoice, after extract_invoice_data returned
ProcessInvoiceBody(data, rows) ==
    IF data = <<>> THEN [raised |-> FALSE, sheet |-> rows, report |-> ExtractFailed]
    ELSE LET done == process_invoice(data[1], rows)
         IN  [raised |-> done.raised, sheet |-> done.sheet,
              report |-> IF done.raised THEN Uncaught ELSE SheetUpdated]

append_to_sheet ==
    /\ program = "script" /\ pc = "returned"
    /\ LET done == ProcessInvoiceBody(invoice_data, sheet)
       IN  /\ Len(done.sheet) <= MaxRows
           /\ sheet' = done.sheet
           /\ report' = done.report
    /\ pc' = "idle"
    /\ invoice_data' = <<>>
    /\ UNCHANGED <<upserted, program, logged_in, username, product_collection, temp_files,
                   remaining, result_text, cleaned_result, summary_df>>

\* streamlit.py "Generate Summary": product_data, summary_df = generate_...(),
\* which raises TypeError when the function returned None
generate_summary_handler(user, collection) ==
    LET returned == generate_summary_from_mongodb(user, collection)
    IN  IF returned = <<>>
        THEN [report |-> Uncaught, summary_df |-> <<>>]
        ELSE [report |-> DownloadReady, summary_df |-> returned]

\* streamlit1.py "Generate Summary"
generate_summary_handler1(user, collection) ==
    LET returned == generate_summary_from_mongodb1(user, collection)
    IN  IF returned.raised THEN [report |-> Uncaught, summary_df |-> <<>>]
        ELSE IF returned.summary # <<>>
        THEN [report |-> DownloadReady, summary_df |-> returned.summary]
        ELSE [report |-> NoSummaryData, summary_df |-> <<>>]

generate_summary ==
    /\ program \in WebPrograms /\ pc = "idle" /\ logged_in
    /\ LET shown == IF program = "streamlit"
                    THEN generate_summary_handler(username, product_collection)
                    ELSE generate_summary_handler1(username, product_collection)
       IN  /\ report' = shown.report
           /\ summary_df' = shown.summary_df
    /\ UNCHANGED <<upserted, program, logged_in, username, product_collection, sheet,
                   temp_files, pc, remaining, result_text, cleaned_result,
                   invoice_data>>

-----------------------------------------------------------------------------
(* Manual entry and deletion (the web programs) *)

Today == <<2024, 1, 15>>    \* datetime.now() as <<year, month, day>>

\* today.strftime("%m/%d/%y"): the year without its century
strftime_y(ts) == <<ts[2], ts[3], ts[1] % 100>>

\* today.strftime("%m/%d/%Y")
strftime_Y(ts) == <<ts[2], ts[3], ts[1]>>

\* datetime.strptime(text, "%m/%d/%Y"): <<year, month, day>>, or <<>> for
\* ValueError
strptime(v) ==
    IF /\ Len(v) = 3
       /\ v[1] \in 1..12
       /\ v[3] \in 1000..9999
       /\ v[2] \in 1..DaysInMonth(v[1], v[3])
    THEN <<v[3], v[1], v[2]>>
    ELSE <<>>

ProductAdded == "Product added successfully!"
AddError == "An error occurred while adding the product"
InvalidDate == "Invalid date format. Please use MM/DD/YYYY."
ProductDeleted == "Product deleted successfully!"
DeleteRefused == "Product not found or you don't have permission to delete it."
DeleteError == "Error deleting product"

\* what the user may type into the forms
InvoiceNumbers == {"INV1"}
VendorNames == {"acme"}
ProductNames == {"pen"}
DateInputs == {NoDate, January, DayFirst}

\* collection.insert_one(product)
insert_one(collection, product) == Append(collection, product)

\* streamlit1.py add_product: the date is today's, written with %y
add_product1(collection, user, number, store, name, db_up) ==
    LET product == Update(pen, [username |-> user,
                                invoice_number |-> number,
                                invoice_date |-> strftime_y(Today),
                                store_name |-> store,
                                product_name |-> name])
    IN  IF db_up
        THEN [collection |-> insert_one(collection, product), report |-> ProductAdded]
        ELSE [collection |-> collection, report |-> ServerErrorTrace]

\* streamlit.py add_product: the date is the one typed, validated and
\* rewritten with %m/%d/%Y, or today's
add_product0(collection, user, number, vendor, user_date_input, db_up) ==
    LET invoice_date == IF user_date_input # NoDate
                        THEN strftime_Y(strptime(user_date_input))
                        ELSE strftime_Y(Today)
        product == Update(receipt, [username |-> user,
                                    invoice_number |-> number,
                                    invoice_date |-> invoice_date,
                                    vendor_name |-> vendor])
    IN  IF user_date_input # NoDate /\ strptime(user_date_input) = <<>>
        THEN [collection |-> collection, report |-> InvalidDate]
        ELSE IF db_up
        THEN [collection |-> insert_one(collection, product), report |-> ProductAdded]
        ELSE [collection |-> collection, report |-> AddError]

\* the "Add Product" button
add_product ==
    /\ program \in WebPrograms /\ pc = "idle" /\ logged_in
    /\ \E number \in InvoiceNumbers, vendor \in VendorNames, name \in ProductNames,
          user_date_input \in DateInputs, db_up \in BOOLEAN :
          LET done == IF program = "streamlit"
                      THEN add_product0(product_collection, username, number, vendor,
                                        user_date_input, db_up)
                      ELSE add_product1(product_collection, username, number, vendor,
                                        name, db_up)
          IN  /\ Len(done.collection) <= MaxDocs
              /\ product_collection' = done.collection
              /\ report' = done.report
    /\ summary_df' = <<>>
    /\ UNCHANGED <<upserted, program, logged_in, username, sheet, temp_files, pc,
                   remaining, result_text, cleaned_result, invoice_data>>

\* the sequence without its j-th element
RemoveAt(seq, j) == SubSeq(seq, 1, j - 1) \o SubSeq(seq, j + 1, Len(seq))

\* a variant whose filter is the id alone
delete_one_by_id(collection, j, user) ==
    IF j \in 1..Len(collection)
    THEN [collection |-> RemoveAt(collection, j), deleted_count |-> 1]
    ELSE [collection |-> collection, deleted_count |-> 0]

\* collection.delete_one({"_id": ObjectId(product_id), "username": username}):
\* a document is known by its place j in the collection; j = 0 stands for an
\* id that no document has
delete_one(collection, j, user) ==
    IF j \in 1..Len(collection) /\ Matches(collection[j], [username |-> user])
    THEN [collection |-> RemoveAt(collection, j), deleted_count |-> 1]
    ELSE [collection |-> collection, deleted_count |-> 0]

\* the "Delete Product" button: the text typed is no ObjectId, or the id j, or
\* the store fails
delete_product ==
    /\ program \in WebPrograms /\ pc = "idle" /\ logged_in
    /\ \E valid_id \in BOOLEAN, db_up \in BOOLEAN, j \in 0..Len(product_collection) :
          IF ~valid_id \/ ~db_up
          THEN /\ report' = DeleteError
               /\ product_collection' = product_collection
          ELSE LET result == delete_one(product_collection, j, username)
               IN  /\ product_collection' = result.collection
                   /\ report' = IF result.deleted_count > 0 THEN ProductDeleted
                                ELSE DeleteRefused
    /\ summary_df' = <<>>
    /\ UNCHANGED <<upserted, program, logged_in, username, sheet, temp_files, pc,
                   remaining, result_text, cleaned_result, invoice_data>>

Next ==
    \/ login
    \/ logout
    \/ upload_invoice
    \/ for_next_file
    \/ for_done
    \/ upload_image_gui
    \/ upload_file
    \/ generate_content
    \/ return_from_extract
    \/ append_invoice
    \/ append_to_sheet
    \/ generate_summary

Spec == Init /\ [][Next]_vars

\* the programs with the "Add Product" and "Delete Product" pages
NextManage ==
    \/ Next
    \/ add_product
    \/ delete_product

SpecManage == Init /\ [][NextManage]_vars

-----------------------------------------------------------------------------
(* Properties *)

IdentityFields ==
    IF program = "streamlit"
    THEN {"invoice_number", "invoice_date", "vendor_name", "username"}
    ELSE {"store_name", "invoice_number", "invoice_date", "product_name", "username"}

\* the identity key of a stored document, and the one an item of a payload
\* is filed under for a user
IdentityKey(doc) == [k \in IdentityFields |-> Get(doc, k)]

ItemKey(data, item, user) ==
    [k \in IdentityFields |->
        CASE k = "username" -> user
          [] k = "product_name" -> Get(item, k)
          [] OTHER -> Get(data, k)]

SummaryOf(user, collection) ==
    IF program = "streamlit"
    THEN generate_summary_from_mongodb(user, collection)
    ELSE <<generate_summary_from_mongodb1(user, collection)>>

\* the payload about to be appended is the one this upload wrote last
Resubmission ==
    /\ program \in WebPrograms
    /\ pc = "returned"
    /\ upserted # <<>>
    /\ invoice_data = <<upserted[Len(upserted)]>>

\* C1: when the payload the upload loop hands to append_to_mongodb is the one
\* it wrote for the previous document (same header, items and user), then
\* after the step every item of the payload has exactly one record under its
\* identity key, and the summary computed for the user is the same as before
\* the step.
C1_IdempotentUpsert ==
    [][Resubmission =>
         LET data == invoice_data[1]
         IN  /\ \A i \in 1..Len(data["data"]) :
                   Cardinality({j \in 1..Len(product_collection') :
                       IdentityKey(product_collection'[j])
                           = ItemKey(data, data["data"][i], username)}) = 1
             /\ SummaryOf(username, product_collection')
                    = SummaryOf(username, product_collection)]_vars

\* the same payload has been written twice in one upload
C1_Witness ==
    /\ program \in WebPrograms
    /\ Len(upserted) = 2
    /\ upserted[1] = upserted[2]
    /\ \E j \in 1..Len(product_collection) :
          IdentityKey(product_collection[j])
              = ItemKey(upserted[2], upserted[2]["data"][1], username)

\* the rows of the three tiers of streamlit.py's summary table
GroupTier(rows) == {r \in rows : r["vendor_name"] \notin {TotalForMonth, AllVendors}}
MonthTier(rows) == {r \in rows : r["vendor_name"] = TotalForMonth}
GrandTier(rows) == {r \in rows : r["vendor_name"] = AllVendors}

\* C2 as stated: in the summary table of streamlit.py the total_price of the
\* (year-month, vendor) rows, of the "Total for Month" rows and of the one
\* "All Vendors" row add up to the same amount, whatever the dates of the
\* records are.
C2_RollUpConsistent ==
    program = "streamlit" /\ summary_df # <<>> =>
        LET rows == summary_df[1]
        IN  /\ Cardinality(GrandTier(rows)) = 1
            /\ SumRows(GroupTier(rows), "total_price")
                   = SumRows(MonthTier(rows), "total_price")
            /\ SumRows(MonthTier(rows), "total_price")
                   = SumRows(GrandTier(rows), "total_price")

\* C3 as stated: whatever happens to one document of a batch, the upload loop
\* goes on to the documents that remain.
C3_BatchContinues ==
    [][pc = "returned" /\ program \in WebPrograms /\ remaining > 1 =>
          (pc' = "for" /\ remaining' = remaining - 1)]_vars

\* C4 as stated: when a payload is written whose last item has the identity key
\* of a stored record, the record afterwards consists of the key and the fields
\* of that item and of nothing else.
C4_UpsertReplaces ==
    [][pc = "returned" /\ program \in WebPrograms /\ upserted' # upserted =>
          LET data == invoice_data[1]
              item == data["data"][Len(data["data"])]
              key == ItemKey(data, item, username)
          IN  (\E j \in 1..Len(product_collection) :
                   IdentityKey(product_collection[j]) = key)
              => \E j \in 1..Len(product_collection') :
                   product_collection'[j]
                       = Update(key, Update(item, [username |-> username]))]_vars

\* C5 as stated: Generate Summary for a user without stored records reports
\* that there is no data and produces no table.
C5_EmptySummaryIsNoData ==
    [][generate_summary /\ find_by_username(product_collection, username) = <<>> =>
          report' = NoSummaryData /\ summary_df' = <<>>]_vars

\* C6 as stated: in each of the three summaries the total_price of the
\* per-period rows adds up to the total_price of all the records summarised,
\* so a record whose date does not parse is in some row.
C6_NoRecordDropped ==
    /\ program = "streamlit1" /\ summary_df # <<>> =>
          SumRows(summary_df[1], "total_price")
              = SumColumn(find_by_username(product_collection, username), "total_price")
    /\ program = "streamlit" /\ summary_df # <<>> =>
          /\ SumRows(GroupTier(summary_df[1]), "total_price")
                = SumColumn(find_by_username(product_collection, username), "total_price")
          /\ SumRows(MonthTier(summary_df[1]), "total_price")
                = SumColumn(find_by_username(product_collection, username), "total_price")
    /\ program = "script" =>
          SumRows(generate_summary_from_product_details(sheet), "total_price")
              = SumColumn(sheet, "total_price")

\* a payload with a header and items that carry every field of a line item
WellFormed(data) ==
    /\ {"store_name", "invoice_number", "invoice_date", "data"} \subseteq DOMAIN data
    /\ data["data"] # <<>>
    /\ \A i \in 1..Len(data["data"]) :
          {"product_name", "unit_price", "quantity", "total_price", "discount", "gst%"}
              \subseteq DOMAIN data["data"][i]

\* the discount the reconciliation rule gives an item
ReconciledDiscount(item) ==
    LET gap == item["unit_price"] * item["quantity"] - item["total_price"]
    IN  IF gap > 0 /\ item["discount"] = 0
        THEN (IF gap < threshold THEN 0 ELSE gap)
        ELSE item["discount"]

\* C7 as stated: every item of a well-formed payload handed to
\* append_product_data_to_excel is afterwards in a new row of the sheet with
\* the reconciled discount, whatever the other items of the payload are.
C7_DiscountReconciled ==
    [][/\ program = "script" /\ pc = "returned"
       /\ invoice_data # <<>> /\ WellFormed(invoice_data[1])
       => \A i \in 1..Len(invoice_data[1]["data"]) :
             \E j \in (Len(sheet) + 1)..Len(sheet') :
                /\ sheet'[j]["product_name"] = invoice_data[1]["data"][i]["product_name"]
                /\ sheet'[j]["discount"] = ReconciledDiscount(invoice_data[1]["data"][i])]_vars

\* positions of the first "{" and the last "}" of a text, 0 where there is none
FirstOpen(text) ==
    IF \E i \in 1..Len(text) : text[i] = "{"
    THEN CHOOSE i \in 1..Len(text) :
            text[i] = "{" /\ \A j \in 1..(i - 1) : text[j] # "{"
    ELSE 0

LastClose(text) ==
    IF \E i \in 1..Len(text) : text[i] = "}"
    THEN CHOOSE i \in 1..Len(text) :
            text[i] = "}" /\ \A j \in (i + 1)..Len(text) : text[j] # "}"
    ELSE 0

\* the text has a "{" with a "}" after it
HasBracePair(text) ==
    FirstOpen(text) > 0 /\ LastClose(text) > FirstOpen(text)

\* C8: when extract_invoice_data is about to return, what went to the JSON
\* parser is the part of the response from its first "{" to its last "}",
\* both included; a response without such a pair yields no invoice data and a
\* reported failure, and a document without invoice data changes neither the
\* collection nor the sheet.
C8_BraceSubstring ==
    /\ [](pc = "return" /\ result_text # <<>> =>
            IF HasBracePair(result_text)
            THEN cleaned_result =
                    SubSeq(result_text, FirstOpen(result_text), LastClose(result_text))
            ELSE /\ invoice_data = <<>>
                 /\ report \in {ExtractionError, ParseFailed})
    /\ [][pc = "returned" /\ invoice_data = <<>> =>
            product_collection' = product_collection /\ sheet' = sheet]_vars

\* a response with a "}" ahead of a "{" and no pair has been handled
C8_Witness ==
    /\ pc = "return"
    /\ ~HasBracePair(result_text)
    /\ \E i, j \in 1..Len(result_text) :
          i < j /\ result_text[i] = "}" /\ result_text[j] = "{"
    /\ invoice_data = <<>>

\* C9: when the parsed payload is the error signal, the loop writes nothing
\* to the collection for the document, reports that no data was found and
\* goes on; the outcome differs from the one of a response that did not
\* parse, which is reported as an extraction error and writes nothing either.
C9_ErrorPayloadRejected ==
    [][pc = "returned" /\ program \in WebPrograms =>
          /\ invoice_data = <<ErrorPayload>> =>
                /\ product_collection' = product_collection
                /\ report' = (IF program = "streamlit" THEN NoDataFound
                               ELSE NoProductDataFound)
                /\ pc' = "for"
          /\ invoice_data = <<>> =>
                /\ product_collection' = product_collection
                /\ report' = ExtractionError
                /\ report' \notin {NoDataFound, NoProductDataFound}]_vars

\* streamlit.py has handled a document whose payload was the error signal
C9_Witness ==
    /\ program = "streamlit"
    /\ pc = "for"
    /\ report = NoDataFound

\* C10: in the web programs the temporary file of a document is gone once
\* extract_invoice_data has returned, whether it returned data, returned
\* nothing after a failed parse, or an exception was caught on the way; no
\* temporary file is left between documents.
C10_TempFileRemoved ==
    program \in WebPrograms /\ pc \in {"returned", "for", "idle"} => temp_files = {}

\* extract_invoice_data has returned through the exception handler
C10_Witness ==
    /\ program \in WebPrograms
    /\ pc = "returned"
    /\ invoice_data = <<>>
    /\ report = ExtractionError
    /\ temp_files = {}

\* the header field that names the seller in each web program
VendorKey == IF program = "streamlit" THEN "vendor_name" ELSE "store_name"

HeaderFields == {VendorKey, "invoice_number", "invoice_date"}

\* the header of a payload, with None for the fields it lacks
NormalizedHeader(data) == [k \in HeaderFields |-> Get(data, k)]

\* C11 as stated: a payload with items in which at least one of vendor name,
\* invoice number and invoice date is present is not rejected for its header;
\* unless the write itself fails, a record with the header, None for the
\* missing fields, is in the collection afterwards.
C11_RejectedOnlyWithoutHeader ==
    [][/\ pc = "returned" /\ program \in WebPrograms
       /\ invoice_data # <<>> /\ "data" \in DOMAIN invoice_data[1]
       /\ invoice_data[1]["data"] # <<>>
       /\ \E k \in HeaderFields : ~Falsy(k, Get(invoice_data[1], k))
       => /\ report' # MissingFields
          /\ \/ report' \in {AppendError, Uncaught, KeyErrorTrace, ServerErrorTrace}
             \/ \E j \in 1..Len(product_collection') :
                   /\ \A k \in HeaderFields :
                         Get(product_collection'[j], k)
                             = NormalizedHeader(invoice_data[1])[k]
                   /\ product_collection'[j]["username"] = username]_vars

DefaultedFields ==
    {"product_name", "unit_price", "quantity", "total_price", "discount", "gst%"}

\* the value the defaulting rule gives a field an item lacks
DefaultOf(k, data) == IF k = "product_name" THEN Get(data, "invoice_number") ELSE 0

\* rows or documents persisted by the running program
Persisted == IF program = "script" THEN sheet ELSE product_collection

\* the record is the item's, with the defaults in the fields the item lacks
DefaultedRecordOf(rec, item, data) ==
    /\ Get(rec, "invoice_number") = Get(data, "invoice_number")
    /\ "product_name" \in DOMAIN item =>
          Get(rec, "product_name") = item["product_name"]
    /\ \A k \in DefaultedFields \ DOMAIN item :
          k \in DOMAIN rec /\ rec[k] = DefaultOf(k, data)

\* C12 as stated: an item that lacks product_name or a numeric field is
\* persisted all the same, with the invoice number as product_name and 0 in
\* the numeric fields it lacks; only a failure of the store itself excuses it.
C12_MissingFieldsDefaulted ==
    [][/\ pc = "returned" /\ program \in {"streamlit1", "script"}
       /\ invoice_data # <<>> /\ "data" \in DOMAIN invoice_data[1]
       /\ {"store_name", "invoice_number", "invoice_date"} \subseteq DOMAIN invoice_data[1]
       => \/ report' = ServerErrorTrace
          \/ \A i \in 1..Len(invoice_data[1]["data"]) :
                LET item == invoice_data[1]["data"][i]
                IN  DefaultedFields \ DOMAIN item # {} =>
                       \E j \in 1..Len(Persisted') :
                          DefaultedRecordOf(Persisted'[j], item, invoice_data[1])]_vars

\* the documents of a collection filed under the header of a payload for a user
WithHeaderOf(collection, data, user) ==
    {j \in 1..Len(collection) :
        /\ \A k \in HeaderFields : Get(collection[j], k) = Get(data, k)
        /\ Get(collection[j], "username") = user}

\* C13: when streamlit.py has written a payload, the collection holds exactly
\* one document under the payload's header and user, however many entries the
\* data list has; when a document with that header was there before, the
\* payload was written into it and the collection has not grown.
C13_OneRecordPerHeader ==
    [][pc = "returned" /\ program = "streamlit" /\ upserted' # upserted =>
          /\ Cardinality(WithHeaderOf(product_collection', invoice_data[1], username)) = 1
          /\ WithHeaderOf(product_collection, invoice_data[1], username) # {} =>
                Len(product_collection') = Len(product_collection)]_vars

\* a payload of two entries and then a payload with the same header have been
\* written, and one document holds them
C13_Witness ==
    /\ program = "streamlit"
    /\ Len(upserted) = 2
    /\ Len(upserted[1]["data"]) = 2
    /\ NormalizedHeader(upserted[1]) = NormalizedHeader(upserted[2])
    /\ upserted[1] # upserted[2]
    /\ Cardinality(WithHeaderOf(product_collection, upserted[2], username)) = 1

\* C14 as stated: every document of the collection and every row of the sheet
\* has the vendor or store name, the invoice number and the invoice date of
\* its invoice, none of them null.
C14_HeaderPopulated ==
    \A j \in 1..Len(Persisted) :
        \A k \in HeaderFields :
            k \in DOMAIN Persisted[j] /\ ~Falsy(k, Persisted[j][k])

\* every item of the payload already has a row of its invoice in the sheet
AlreadyProcessed(data) ==
    /\ WellFormed(data)
    /\ \A i \in 1..Len(data["data"]) :
          \E j \in 1..Len(sheet) :
             /\ sheet[j]["product_name"] = data["data"][i]["product_name"]
             /\ sheet[j]["invoice_number"] = data["invoice_number"]
             /\ sheet[j]["store_name"] = data["store_name"]

\* C15 as stated: the sheet of script.py never has two rows that are equal in
\* all columns, and processing an invoice whose rows are already in the sheet
\* leaves the sums of the monthly summary as they were.
C15_SheetWithoutDuplicates ==
    /\ [](program = "script" =>
            \A i, j \in 1..Len(sheet) : i # j => sheet[i] # sheet[j])
    /\ [][/\ program = "script" /\ pc = "returned"
          /\ invoice_data # <<>> /\ AlreadyProcessed(invoice_data[1])
          => generate_summary_from_product_details(sheet')
                = generate_summary_from_product_details(sheet)]_vars

\* C16 as stated: in the web programs no two documents of the collection have
\* the same identity key, whatever uploads, added products and deletions came
\* before.
C16_AtMostOnePerKey ==
    program \in WebPrograms =>
        \A i, j \in 1..Len(product_collection) :
            i # j => IdentityKey(product_collection[i]) # IdentityKey(product_collection[j])

\* what Generate Summary shows a user for a collection
SummaryShown(user, collection) ==
    IF program = "streamlit"
    THEN generate_summary_handler(user, collection)
    ELSE generate_summary_handler1(user, collection)

\* C17: no step of a session changes the documents of a user other than the
\* one logged in, in content, number or order; and the summary shown to the
\* user logged in is the one computed from that user's documents alone.
C17_TenantIsolation ==
    [][/\ \A other \in Usernames \ {username} :
             find_by_username(product_collection', other)
                 = find_by_username(product_collection, other)
       /\ generate_summary =>
             /\ summary_df' = SummaryShown(username,
                                  find_by_username(product_collection, username)).summary_df
             /\ report' = SummaryShown(username,
                              find_by_username(product_collection, username)).report]_vars

\* the user logged in has deleted a document while the collection holds a
\* document of another user
C17_Witness ==
    /\ program \in WebPrograms
    /\ logged_in
    /\ report = ProductDeleted
    /\ \E j \in 1..Len(product_collection) :
          product_collection[j]["username"] # username

\* C18 as stated: a document that streamlit1.py's add_product has just
\* inserted has an invoice_date that the summary parses into a year-month, and
\* the summary computed next for its owner has a row for that year-month.
C18_AddedProductHasPeriod ==
    [][program = "streamlit1" /\ add_product /\ report' = ProductAdded =>
          LET added == product_collection'[Len(product_collection')]
              next == generate_summary_from_mongodb1(username, product_collection')
          IN  /\ YearMonth(added) # NaT
              /\ ~next.raised
              /\ \E row \in next.summary[1] : row["year-month"] = YearMonth(added)]_vars

====
